---- MODULE Spec2Model ----
(***************************************************************************)
(* Model of terraform-provider-n8n: the n8n API client (doRequest,         *)
(* CreateCredential, ListCredentials, GetCredential, UpdateCredential,     *)
(* DeleteCredential) and the credential resource built on it (Create,      *)
(* Read, Update, Delete, ModifyPlan, validateCredentialBlocks).            *)
(*                                                                         *)
(* The n8n server is the environment: it holds the set of credentials,     *)
(* issues a new id for every credential it creates, and answers each       *)
(* request with an exchange outcome chosen nondeterministically.           *)
(***************************************************************************)
EXTENDS Integers, Sequences, FiniteSets, TLC

VARIABLES
    state,      \* the resource's Terraform state (credentialResourceModel) or NoState
    remote,     \* the ids of the credentials the n8n server holds
    nextId,     \* the id the server gives to the next credential it creates
    last,       \* what the lifecycle operation that just ran did and returned
    input,      \* the argument of a function applied on its own
    output,     \* what that function returned
    client,     \* the *Client the provider hands to every resource, or NilClient
    calls       \* the client operations running at the same time, each with its locals

vars == <<state, remote, nextId, last, input, output, client, calls>>

(***************************************************************************)
(* Bounds of the model.                                                    *)
(***************************************************************************)
MaxIds == 2          \* the server issues ids 1..MaxIds

(***************************************************************************)
(* Values.                                                                 *)
(***************************************************************************)
Ids == 1..MaxIds
EmptyId == 0                          \* the empty string "" as an id
NoId == -1                            \* the endpoint "credentials", which has no id part
Names == {"a", "b"}                   \* declared credential names
ServerName == "srv"                   \* a name as the server may rewrite it
NodeLists == {<< >>, <<"n1">>}
Statuses == {199, 200, 299, 300, 404}
ErrBodies == {"denied", "gone"}

\* types.String / types.Bool values: null, unknown or a known value
Null == "null"
Unknown == "unknown"

\* types.Object / types.List values
NullBlock == [kind |-> "null"]
UnknownBlock == [kind |-> "unknown"]
IsNull(v) == v.kind = "null"
IsUnknown(v) == v.kind = "unknown"
ListValue(elems) == [kind |-> "list", elems |-> elems]

NoState == [kind |-> "null"]

\* type Credential struct, the zero value json.Unmarshal starts from
ZeroCredential == [id |-> EmptyId, name |-> "", nodes |-> << >>]

(***************************************************************************)
(* Errors.  An error is its message: the kind of the innermost error, the  *)
(* status and body an API error carries, and the prefixes wrapped around   *)
(* it by fmt.Errorf("...: %w", err), outermost first.                      *)
(***************************************************************************)
NoErr == [kind |-> "none"]
ApiError(status, body) == [kind |-> "api", status |-> status, body |-> body, ctx |-> << >>]
LocalError(what) == [kind |-> "transport", ctx |-> <<what>>]
TransportError == LocalError("error making request")
UnmarshalError == [kind |-> "unmarshal", ctx |-> << >>]
NotFoundError(id) == [kind |-> "notfound", id |-> id, ctx |-> << >>]
Wrap(prefix, err) == [err EXCEPT !.ctx = <<prefix>> \o @]
IsErr(err) == err.kind # "none"
WrapIf(prefix, err) == IF IsErr(err) THEN Wrap(prefix, err) ELSE err

(***************************************************************************)
(* HTTP exchanges.  An exchange is what happens to one request: whether it *)
(* reaches the server (reach), whether the server's response is lost on    *)
(* the way back (lost), which step of doRequest fails on the client's side *)
(* (fail), and the status and raw body of the response.                    *)
(* A raw body has a form:                                                  *)
(*   "text"        not JSON                                                *)
(*   "object"      a JSON object with the credential's fields at top level *)
(*   "data_object" {"data": {...}}                                         *)
(*   "data_array"  {"data": [...]}                                         *)
(*   "array"       [...]                                                   *)
(***************************************************************************)
NoBody == [form |-> "none"]
TextBody(t) == [form |-> "text", text |-> t]
CredBody(form, cred) == [form |-> form, cred |-> cred]
ListBody(form, list) == [form |-> form, list |-> list]

NoExchange == [reach |-> FALSE, lost |-> FALSE, fail |-> "none", status |-> 0, text |-> "",
               form |-> "none", name |-> "", nodes |-> << >>]
Failed(status, text) == [NoExchange EXCEPT !.reach = TRUE, !.status = status, !.text = text]
Answered(status, form) == [NoExchange EXCEPT !.reach = TRUE, !.status = status, !.form = form]
LostAnswer(status) == [NoExchange EXCEPT !.reach = TRUE, !.lost = TRUE, !.status = status]

OkStatuses == {s \in Statuses : s >= 200 /\ s <= 299}
ErrStatuses == Statuses \ OkStatuses

FailedOutcomes == {NoExchange} \cup {Failed(s, t) : s \in ErrStatuses, t \in ErrBodies}

\* the server carries a request out exactly when it answers 2xx
ServerDid(o) == o.reach /\ o.status \in OkStatuses

(***************************************************************************)
(* Client.doRequest: the outcome of one exchange as the client sees it.    *)
(***************************************************************************)
doRequest_statusOff(o, raw) ==
    IF o.fail = "marshal"
    THEN [body |-> NoBody, err |-> LocalError("error marshaling request body")]
    ELSE IF o.fail = "request"
    THEN [body |-> NoBody, err |-> LocalError("error creating request")]
    ELSE IF ~o.reach \/ o.lost
    THEN [body |-> NoBody, err |-> TransportError]
    ELSE IF o.fail = "read"
    THEN [body |-> NoBody, err |-> LocalError("error reading response body")]
    ELSE IF o.status < 200 \/ o.status > 300
    THEN [body |-> NoBody, err |-> ApiError(o.status, raw)]
    ELSE [body |-> raw, err |-> NoErr]

\* Client.doRequest: json.Marshal, http.NewRequest, client.Do, io.ReadAll,
\* then the status check
doRequest(o, raw) ==
    IF o.fail = "marshal"
    THEN [body |-> NoBody, err |-> LocalError("error marshaling request body")]
    ELSE IF o.fail = "request"
    THEN [body |-> NoBody, err |-> LocalError("error creating request")]
    ELSE IF ~o.reach \/ o.lost
    THEN [body |-> NoBody, err |-> TransportError]
    ELSE IF o.fail = "read"
    THEN [body |-> NoBody, err |-> LocalError("error reading response body")]
    ELSE IF o.status < 200 \/ o.status >= 300
    THEN [body |-> NoBody, err |-> ApiError(o.status, raw)]
    ELSE [body |-> raw, err |-> NoErr]

\* json.Unmarshal(respBody, &credential) for a Credential
UnmarshalCredential(body) ==
    CASE body.form = "object" -> [cred |-> body.cred, err |-> NoErr]
      [] body.form = "data_object" -> [cred |-> ZeroCredential, err |-> NoErr]
      [] OTHER -> [cred |-> ZeroCredential, err |-> UnmarshalError]

\* the two json.Unmarshal attempts of ListCredentials
UnmarshalList(body) ==
    CASE body.form = "data_array" -> [list |-> body.list, err |-> NoErr]
      [] body.form = "object" -> [list |-> << >>, err |-> NoErr]
      [] body.form = "array" -> [list |-> body.list, err |-> NoErr]
      [] OTHER -> [list |-> << >>, err |-> UnmarshalError]

(***************************************************************************)
(* The n8n server.                                                         *)
(***************************************************************************)
\* the raw body of a response
RawBody(o, content) ==
    IF o.status \in OkStatuses
    THEN IF o.form = "text" THEN TextBody("<html>") ELSE content
    ELSE TextBody(o.text)

\* the credential with this id as the server's response shows it
Shown(id, o) == [id |-> id, name |-> o.name, nodes |-> o.nodes]

\* POST credentials: a created credential gets the next id
ServerCreate(rem, nid, cred, o) ==
    IF ServerDid(o)
    THEN [remote |-> rem \cup {nid}, nextId |-> nid + 1,
          raw |-> RawBody(o, CredBody(o.form, Shown(nid, o)))]
    ELSE [remote |-> rem, nextId |-> nid, raw |-> RawBody(o, NoBody)]

\* DELETE credentials/{id}
ServerDelete(rem, id, o) ==
    IF ServerDid(o)
    THEN [remote |-> rem \ {id}, raw |-> RawBody(o, NoBody)]
    ELSE [remote |-> rem, raw |-> RawBody(o, NoBody)]

\* GET credentials/{id}
ServerGet(rem, id, o) ==
    IF ServerDid(o)
    THEN RawBody(o, CredBody(o.form, Shown(id, o)))
    ELSE RawBody(o, NoBody)

\* the credentials of rem, by ascending id
RECURSIVE ListOf(_, _, _)
ListOf(rem, from, o) ==
    IF from > MaxIds THEN << >>
    ELSE IF from \in rem
    THEN <<Shown(from, o)>> \o ListOf(rem, from + 1, o)
    ELSE ListOf(rem, from + 1, o)

\* GET credentials
ServerList(rem, o) ==
    IF ServerDid(o)
    THEN RawBody(o, ListBody(o.form, ListOf(rem, 1, o)))
    ELSE RawBody(o, NoBody)

(***************************************************************************)
(* The exchanges the server can have for each request.  The server answers *)
(* 2xx to DELETE and GET by id only for a credential it holds.  The name   *)
(* and nodesAccess a response shows are the server's: for POST the ones    *)
(* sent, or the name rewritten, or nodesAccess left out.                   *)
(***************************************************************************)
Shows(names, nodes, forms) ==
    {[Answered(s, f) EXCEPT !.name = n, !.nodes = l] :
         s \in OkStatuses, f \in forms, n \in names, l \in nodes}

PostOutcomes(cred) ==
    FailedOutcomes
    \cup {LostAnswer(s) : s \in OkStatuses}
    \cup {Answered(s, f) : s \in OkStatuses, f \in {"data_object", "text"}}
    \cup Shows({cred.name, ServerName}, {cred.nodes, << >>}, {"object"})

DeleteOutcomes(rem, id) ==
    FailedOutcomes
    \cup (IF id \in rem
          THEN {LostAnswer(s) : s \in OkStatuses} \cup {Answered(s, "text") : s \in OkStatuses}
          ELSE {})

GetOutcomes(rem, id) ==
    FailedOutcomes
    \cup (IF id \in rem
          THEN {Answered(s, f) : s \in OkStatuses, f \in {"data_object", "text"}}
               \cup Shows(Names \cup {ServerName}, NodeLists, {"object"})
          ELSE {})

ListOutcomes ==
    FailedOutcomes
    \cup {Answered(s, f) : s \in OkStatuses, f \in {"object", "text"}}
    \cup Shows(Names \cup {ServerName}, NodeLists, {"data_array", "array"})

(***************************************************************************)
(* The client's credential operations.  Each takes the exchange(s) its     *)
(* request(s) will have and the server's state, and gives what it returns  *)
(* (cred, err), the server's state afterwards and the requests it issued.  *)
(***************************************************************************)
\* one doRequest call: the request and what doRequest returned for it
Req(method, id, res) == [method |-> method, id |-> id, err |-> res.err, body |-> res.body]

\* Client.CreateCredential
CreateCredential(cred, o, rem, nid) ==
    LET srv == ServerCreate(rem, nid, cred, o)
        res == doRequest(o, srv.raw)
        dec == UnmarshalCredential(res.body)
    IN  [cred |-> IF IsErr(res.err) THEN ZeroCredential ELSE dec.cred,
         err |-> IF IsErr(res.err) THEN res.err
                 ELSE WrapIf("error unmarshaling response", dec.err),
         remote |-> srv.remote,
         nextId |-> srv.nextId,
         reqs |-> <<Req("POST", NoId, res)>>]

\* ListCredentials, were a failed request issued once more
ListCredentials_retries(o, rem) ==
    LET res == doRequest(o, ServerList(rem, o))
        dec == UnmarshalList(res.body)
    IN  [list |-> IF IsErr(res.err) THEN << >> ELSE dec.list,
         err |-> IF IsErr(res.err) THEN res.err
                 ELSE WrapIf("error unmarshaling response", dec.err),
         reqs |-> IF IsErr(res.err)
                  THEN <<Req("GET", NoId, res), Req("GET", NoId, res)>>
                  ELSE <<Req("GET", NoId, res)>>]

\* Client.ListCredentials
ListCredentials(o, rem) ==
    LET res == doRequest(o, ServerList(rem, o))
        dec == UnmarshalList(res.body)
    IN  [list |-> IF IsErr(res.err) THEN << >> ELSE dec.list,
         err |-> IF IsErr(res.err) THEN res.err
                 ELSE WrapIf("error unmarshaling response", dec.err),
         reqs |-> <<Req("GET", NoId, res)>>]

\* Scan, were the id comparison left out
RECURSIVE Scan_anyId(_, _)
Scan_anyId(list, id) ==
    IF list = << >> THEN [cred |-> ZeroCredential, err |-> NotFoundError(id)]
    ELSE [cred |-> Head(list), err |-> NoErr]

\* the loop of GetCredential: the first listed credential with the id
RECURSIVE Scan(_, _)
Scan(list, id) ==
    IF list = << >> THEN [cred |-> ZeroCredential, err |-> NotFoundError(id)]
    ELSE IF Head(list).id = id THEN [cred |-> Head(list), err |-> NoErr]
    ELSE Scan(Tail(list), id)

\* Client.GetCredential
GetCredential(id, og, ol, rem) ==
    LET res == doRequest(og, ServerGet(rem, id, og))
        dec == UnmarshalCredential(res.body)
        lst == ListCredentials(ol, rem)
        fnd == Scan(lst.list, id)
    IN  IF ~IsErr(res.err)
        THEN [cred |-> dec.cred,
              err |-> WrapIf("error unmarshaling response", dec.err),
              reqs |-> <<Req("GET", id, res)>>]
        ELSE IF IsErr(lst.err)
        THEN [cred |-> ZeroCredential,
              err |-> Wrap("error listing credentials", lst.err),
              reqs |-> <<Req("GET", id, res)>> \o lst.reqs]
        ELSE [cred |-> fnd.cred, err |-> fnd.err, reqs |-> <<Req("GET", id, res)>> \o lst.reqs]

\* Client.DeleteCredential
DeleteCredential(id, o, rem) ==
    LET srv == ServerDelete(rem, id, o)
        res == doRequest(o, srv.raw)
    IN  [err |-> res.err, remote |-> srv.remote, reqs |-> <<Req("DELETE", id, res)>>]

\* UpdateCredential, were the delete error not checked before creating
UpdateCredential_createsAnyway(id, cred, od, oc, rem, nid) ==
    LET del == DeleteCredential(id, od, rem)
        new == CreateCredential(cred, oc, del.remote, nid)
    IN  [cred |-> new.cred,
         err |-> IF IsErr(del.err)
                 THEN Wrap("failed to delete old credential before update", del.err)
                 ELSE WrapIf("failed to create new credential after delete", new.err),
         remote |-> new.remote,
         nextId |-> new.nextId,
         reqs |-> del.reqs \o new.reqs]

\* UpdateCredential, were the delete error replaced by a new one (no %w)
UpdateCredential_newError(id, cred, od, oc, rem, nid) ==
    LET del == DeleteCredential(id, od, rem)
        new == CreateCredential(cred, oc, del.remote, nid)
    IN  IF IsErr(del.err)
        THEN [cred |-> ZeroCredential,
              err |-> [kind |-> "other",
                       ctx |-> <<"failed to delete old credential before update">>],
              remote |-> del.remote,
              nextId |-> nid,
              reqs |-> del.reqs]
        ELSE [cred |-> new.cred,
              err |-> WrapIf("failed to create new credential after delete", new.err),
              remote |-> new.remote,
              nextId |-> new.nextId,
              reqs |-> del.reqs \o new.reqs]

\* Client.UpdateCredential
UpdateCredential(id, cred, od, oc, rem, nid) ==
    LET del == DeleteCredential(id, od, rem)
        new == CreateCredential(cred, oc, del.remote, nid)
    IN  IF IsErr(del.err)
        THEN [cred |-> ZeroCredential,
              err |-> Wrap("failed to delete old credential before update", del.err),
              remote |-> del.remote,
              nextId |-> nid,
              reqs |-> del.reqs]
        ELSE [cred |-> new.cred,
              err |-> WrapIf("failed to create new credential after delete", new.err),
              remote |-> new.remote,
              nextId |-> new.nextId,
              reqs |-> del.reqs \o new.reqs]

(***************************************************************************)
(* The credential resource: its blocks and their validation.               *)
(***************************************************************************)
ValueString(v) == IF v \in {Null, Unknown} THEN "" ELSE v
ValueBool(v) == v = "true"

BasicAuth(username, password) ==
    [kind |-> "obj", username |-> username, password |-> password]
HeaderAuth(name, value) ==
    [kind |-> "obj", name |-> name, value |-> value]
OAuth2(mandatory, authQueryParameters, sendAdditionalBodyProperties, additionalBodyProperties) ==
    [kind |-> "obj",
     client_id |-> mandatory[1], client_secret |-> mandatory[2],
     access_token_url |-> mandatory[3], auth_url |-> mandatory[4], scope |-> mandatory[5],
     auth_query_parameters |-> authQueryParameters,
     send_additional_body_properties |-> sendAdditionalBodyProperties,
     additional_body_properties |-> additionalBodyProperties]

\* !block.IsNull() && !block.IsUnknown()
IsDefined(block) == ~IsNull(block) /\ ~IsUnknown(block)

BasicAuthData(b) ==
    [user |-> ValueString(b.username), password |-> ValueString(b.password)]
\* OAuth2Data, were sendAdditionalBodyProperties left out when the field is null
OAuth2Data_omitsUnset(b) ==
    IF b.send_additional_body_properties = Null
    THEN [clientId |-> ValueString(b.client_id),
          clientSecret |-> ValueString(b.client_secret),
          accessTokenUrl |-> ValueString(b.access_token_url),
          authUrl |-> ValueString(b.auth_url),
          scope |-> ValueString(b.scope),
          authQueryParameters |->
              IF b.auth_query_parameters # Null THEN ValueString(b.auth_query_parameters) ELSE "",
          additionalBodyProperties |->
              IF b.additional_body_properties # Null
              THEN ValueString(b.additional_body_properties) ELSE ""]
    ELSE [clientId |-> ValueString(b.client_id),
          clientSecret |-> ValueString(b.client_secret),
          accessTokenUrl |-> ValueString(b.access_token_url),
          authUrl |-> ValueString(b.auth_url),
          scope |-> ValueString(b.scope),
          authQueryParameters |->
              IF b.auth_query_parameters # Null THEN ValueString(b.auth_query_parameters) ELSE "",
          sendAdditionalBodyProperties |-> ValueBool(b.send_additional_body_properties),
          additionalBodyProperties |->
              IF b.additional_body_properties # Null
              THEN ValueString(b.additional_body_properties) ELSE ""]

\* the data map validateCredentialBlocks builds for an oauth2 block
OAuth2Data(b) ==
    [clientId |-> ValueString(b.client_id),
     clientSecret |-> ValueString(b.client_secret),
     accessTokenUrl |-> ValueString(b.access_token_url),
     authUrl |-> ValueString(b.auth_url),
     scope |-> ValueString(b.scope),
     authQueryParameters |->
         IF b.auth_query_parameters # Null THEN ValueString(b.auth_query_parameters) ELSE "",
     sendAdditionalBodyProperties |->
         IF b.send_additional_body_properties # Null
         THEN ValueBool(b.send_additional_body_properties) ELSE FALSE,
     additionalBodyProperties |->
         IF b.additional_body_properties # Null
         THEN ValueString(b.additional_body_properties) ELSE ""]
HeaderAuthData(b) ==
    [name |-> ValueString(b.name), value |-> ValueString(b.value)]

NoData == [none |-> TRUE]
\* fmt.Errorf(msg, n): the format and the number put in for %d
ConfigError(msg, n) == [kind |-> "config", msg |-> msg, found |-> n, ctx |-> << >>]

\* blocksDefined of validateCredentialBlocks and ModifyPlan
BlocksDefined(model) ==
    (IF IsDefined(model.basic_auth) THEN 1 ELSE 0)
    + (IF IsDefined(model.oauth2) THEN 1 ELSE 0)
    + (IF IsDefined(model.header_auth) THEN 1 ELSE 0)

\* validateCredentialBlocks, were the blocksDefined > 1 check left out
validateCredentialBlocks_noMultipleCheck(model) ==
    LET type == IF IsDefined(model.header_auth) THEN "httpHeaderAuth"
                ELSE IF IsDefined(model.oauth2) THEN "oAuth2Api"
                ELSE IF IsDefined(model.basic_auth) THEN "httpBasicAuth"
                ELSE ""
        data == IF IsDefined(model.header_auth) THEN HeaderAuthData(model.header_auth)
                ELSE IF IsDefined(model.oauth2) THEN OAuth2Data(model.oauth2)
                ELSE IF IsDefined(model.basic_auth) THEN BasicAuthData(model.basic_auth)
                ELSE NoData
    IN  IF BlocksDefined(model) = 0
        THEN [type |-> "", data |-> NoData,
              err |-> ConfigError("exactly one credential block must be specified (basic_auth, oauth2, or header_auth)", 0)]
        ELSE [type |-> type, data |-> data, err |-> NoErr]

\* validateCredentialBlocks, were an unknown block counted as defined
validateCredentialBlocks_countsUnknown(model) ==
    LET type == IF IsDefined(model.header_auth) THEN "httpHeaderAuth"
                ELSE IF IsDefined(model.oauth2) THEN "oAuth2Api"
                ELSE IF IsDefined(model.basic_auth) THEN "httpBasicAuth"
                ELSE ""
        data == IF IsDefined(model.header_auth) THEN HeaderAuthData(model.header_auth)
                ELSE IF IsDefined(model.oauth2) THEN OAuth2Data(model.oauth2)
                ELSE IF IsDefined(model.basic_auth) THEN BasicAuthData(model.basic_auth)
                ELSE NoData
        found == Cardinality({f \in {"basic_auth", "oauth2", "header_auth"} : ~IsNull(model[f])})
    IN  IF found = 0
        THEN [type |-> "", data |-> NoData,
              err |-> ConfigError("exactly one credential block must be specified (basic_auth, oauth2, or header_auth)", 0)]
        ELSE IF found > 1
        THEN [type |-> "", data |-> NoData,
              err |-> ConfigError("exactly one credential block must be specified, but %d were found",
                                  found)]
        ELSE [type |-> type, data |-> data, err |-> NoErr]

\* validateCredentialBlocks: a later block overwrites credentialType and data
validateCredentialBlocks(model) ==
    LET type == IF IsDefined(model.header_auth) THEN "httpHeaderAuth"
                ELSE IF IsDefined(model.oauth2) THEN "oAuth2Api"
                ELSE IF IsDefined(model.basic_auth) THEN "httpBasicAuth"
                ELSE ""
        data == IF IsDefined(model.header_auth) THEN HeaderAuthData(model.header_auth)
                ELSE IF IsDefined(model.oauth2) THEN OAuth2Data(model.oauth2)
                ELSE IF IsDefined(model.basic_auth) THEN BasicAuthData(model.basic_auth)
                ELSE NoData
    IN  IF BlocksDefined(model) = 0
        THEN [type |-> "", data |-> NoData,
              err |-> ConfigError("exactly one credential block must be specified (basic_auth, oauth2, or header_auth)", 0)]
        ELSE IF BlocksDefined(model) > 1
        THEN [type |-> "", data |-> NoData,
              err |-> ConfigError("exactly one credential block must be specified, but %d were found",
                                  BlocksDefined(model))]
        ELSE [type |-> type, data |-> data, err |-> NoErr]

(***************************************************************************)
(* ModifyPlan: the plan-time check of the blocks.  A diagnostic is its     *)
(* summary and what it names (block names, or the attribute's path).       *)
(***************************************************************************)
Diag(summary, names) == [summary |-> summary, names |-> names]
ErrDiag(summary, id, err) == [summary |-> summary, id |-> id, err |-> err]

BlockNames(plan) ==
    (IF IsDefined(plan.basic_auth) THEN <<"basic_auth">> ELSE << >>)
    \o (IF IsDefined(plan.oauth2) THEN <<"oauth2">> ELSE << >>)
    \o (IF IsDefined(plan.header_auth) THEN <<"header_auth">> ELSE << >>)

\* field.IsNull() || field.IsUnknown() -> AddAttributeError(path, ...)
MissingAttribute(block, path, v) ==
    IF v = Null \/ v = Unknown
    THEN <<Diag("Missing Required Attribute", <<block, path>>)>>
    ELSE << >>

BasicAuthDiags(b) ==
    MissingAttribute("basic_auth", "username", b.username)
    \o MissingAttribute("basic_auth", "password", b.password)
OAuth2Diags(b) ==
    MissingAttribute("oauth2", "client_id", b.client_id)
    \o MissingAttribute("oauth2", "client_secret", b.client_secret)
    \o MissingAttribute("oauth2", "access_token_url", b.access_token_url)
    \o MissingAttribute("oauth2", "auth_url", b.auth_url)
    \o MissingAttribute("oauth2", "scope", b.scope)
HeaderAuthDiags(b) ==
    MissingAttribute("header_auth", "name", b.name)
    \o MissingAttribute("header_auth", "value", b.value)

\* credentialResource.ModifyPlan, for a plan that is not null
ModifyPlan(plan) ==
    IF IsUnknown(plan.basic_auth) /\ IsUnknown(plan.oauth2) /\ IsUnknown(plan.header_auth)
    THEN << >>
    ELSE IF BlocksDefined(plan) = 0
    THEN <<Diag("Missing Credential Block", << >>)>>
    ELSE IF BlocksDefined(plan) > 1
    THEN <<Diag("Multiple Credential Blocks", BlockNames(plan))>>
    ELSE (IF IsDefined(plan.basic_auth) THEN BasicAuthDiags(plan.basic_auth) ELSE << >>)
         \o (IF IsDefined(plan.oauth2) THEN OAuth2Diags(plan.oauth2) ELSE << >>)
         \o (IF IsDefined(plan.header_auth) THEN HeaderAuthDiags(plan.header_auth) ELSE << >>)

(***************************************************************************)
(* The lifecycle handlers of the credential resource.  Each gives the      *)
(* Terraform state, the server's state, the error diagnostics, the error   *)
(* the client returned, the requests issued and the credential returned.   *)
(***************************************************************************)
NullList == [kind |-> "null"]

\* plan.NodesAccess as []client.NodeAccess
NodesAccessOf(plan) ==
    IF IsDefined(plan.nodes_access) THEN plan.nodes_access.elems ELSE << >>

\* the client.Credential that Create and Update build from the plan
CredentialOf(plan, val) ==
    [name |-> ValueString(plan.name), type |-> val.type, data |-> val.data,
     nodes |-> NodesAccessOf(plan)]

Result(st, rem, nid, diags, err, reqs, cred) ==
    [state |-> st, remote |-> rem, nextId |-> nid, diags |-> diags, err |-> err,
     reqs |-> reqs, cred |-> cred]

\* CreateState, were plan.ID not set from the response
CreateState_noId(plan, created) ==
    [kind |-> "state",
     id |-> EmptyId,
     name |-> created.name,
     basic_auth |-> plan.basic_auth,
     oauth2 |-> plan.oauth2,
     header_auth |-> plan.header_auth,
     nodes_access |-> IF Len(created.nodes) > 0 THEN ListValue(created.nodes)
                      ELSE plan.nodes_access]

\* Create: the response mapped into the plan, which becomes the state
CreateState(plan, created) ==
    [kind |-> "state",
     id |-> created.id,
     name |-> created.name,
     basic_auth |-> plan.basic_auth,
     oauth2 |-> plan.oauth2,
     header_auth |-> plan.header_auth,
     nodes_access |-> IF Len(created.nodes) > 0 THEN ListValue(created.nodes)
                      ELSE plan.nodes_access]

\* credentialResource.Create
CreateHandler(plan, o, st, rem, nid) ==
    LET val == validateCredentialBlocks(plan)
        new == CreateCredential(CredentialOf(plan, val), o, rem, nid)
    IN  IF IsErr(val.err)
        THEN Result(st, rem, nid,
                    <<ErrDiag("Invalid Credential Configuration", EmptyId, val.err)>>,
                    NoErr, << >>, ZeroCredential)
        ELSE IF IsErr(new.err)
        THEN Result(st, new.remote, new.nextId,
                    <<ErrDiag("Error creating credential", EmptyId, new.err)>>,
                    new.err, new.reqs, ZeroCredential)
        ELSE Result(CreateState(plan, new.cred), new.remote, new.nextId,
                    << >>, NoErr, new.reqs, new.cred)

\* ReadFailureState, were the resource removed from state on a failed read
ReadFailureState_removed(st) == NoState

\* Read, GetCredential failed: the state is set to what it was
ReadFailureState(st) == st

\* ReadState, were the blocks set from the response, which has no data
ReadState_clearsBlocks(st, credential) ==
    [st EXCEPT !.id = credential.id,
               !.name = credential.name,
               !.basic_auth = NullBlock,
               !.oauth2 = NullBlock,
               !.header_auth = NullBlock,
               !.nodes_access = IF Len(credential.nodes) > 0
                                THEN ListValue(credential.nodes)
                                ELSE NullList]

\* Read, GetCredential succeeded: id, name and nodes_access are refreshed
ReadState(st, credential) ==
    [st EXCEPT !.id = credential.id,
               !.name = credential.name,
               !.nodes_access = IF Len(credential.nodes) > 0
                                THEN ListValue(credential.nodes)
                                ELSE NullList]

\* credentialResource.Read
ReadHandler(og, ol, st, rem, nid) ==
    LET got == GetCredential(st.id, og, ol, rem)
    IN  IF IsErr(got.err)
        THEN Result(ReadFailureState(st), rem, nid, << >>, got.err, got.reqs, ZeroCredential)
        ELSE Result(ReadState(st, got.cred), rem, nid, << >>, NoErr, got.reqs, got.cred)

\* UpdateState, were plan.ID not set from the response: it stays the old id
UpdateState_sameId(plan, updated) ==
    [kind |-> "state",
     id |-> state.id,
     name |-> updated.name,
     basic_auth |-> plan.basic_auth,
     oauth2 |-> plan.oauth2,
     header_auth |-> plan.header_auth,
     nodes_access |-> IF Len(updated.nodes) > 0 THEN ListValue(updated.nodes)
                      ELSE plan.nodes_access]

\* Update: the response mapped into the plan, which becomes the state
UpdateState(plan, updated) ==
    [kind |-> "state",
     id |-> updated.id,
     name |-> updated.name,
     basic_auth |-> plan.basic_auth,
     oauth2 |-> plan.oauth2,
     header_auth |-> plan.header_auth,
     nodes_access |-> IF Len(updated.nodes) > 0 THEN ListValue(updated.nodes)
                      ELSE plan.nodes_access]

\* UpdateHandler, were the state removed when UpdateCredential fails
UpdateHandler_removesOnError(plan, od, oc, st, rem, nid) ==
    LET val == validateCredentialBlocks(plan)
        upd == UpdateCredential(st.id, CredentialOf(plan, val), od, oc, rem, nid)
    IN  IF IsErr(val.err)
        THEN Result(st, rem, nid,
                    <<ErrDiag("Invalid Credential Configuration", EmptyId, val.err)>>,
                    NoErr, << >>, ZeroCredential)
        ELSE IF IsErr(upd.err)
        THEN Result(NoState, upd.remote, upd.nextId,
                    <<ErrDiag("Error updating credential", st.id, upd.err)>>,
                    upd.err, upd.reqs, ZeroCredential)
        ELSE Result(UpdateState(plan, upd.cred), upd.remote, upd.nextId,
                    << >>, NoErr, upd.reqs, upd.cred)

\* credentialResource.Update; plan.ID is the state's id (UseStateForUnknown)
UpdateHandler(plan, od, oc, st, rem, nid) ==
    LET val == validateCredentialBlocks(plan)
        upd == UpdateCredential(st.id, CredentialOf(plan, val), od, oc, rem, nid)
    IN  IF IsErr(val.err)
        THEN Result(st, rem, nid,
                    <<ErrDiag("Invalid Credential Configuration", EmptyId, val.err)>>,
                    NoErr, << >>, ZeroCredential)
        ELSE IF IsErr(upd.err)
        THEN Result(st, upd.remote, upd.nextId,
                    <<ErrDiag("Error updating credential", st.id, upd.err)>>,
                    upd.err, upd.reqs, ZeroCredential)
        ELSE Result(UpdateState(plan, upd.cred), upd.remote, upd.nextId,
                    << >>, NoErr, upd.reqs, upd.cred)

\* DeleteHandler, were a 404 from the server taken for a credential already gone
DeleteHandler_gone404(o, st, rem, nid) ==
    LET del == DeleteCredential(st.id, o, rem)
    IN  IF IsErr(del.err) /\ ~(del.err.kind = "api" /\ del.err.status = 404)
        THEN Result(st, del.remote, nid,
                    <<ErrDiag("Error deleting credential", st.id, del.err)>>,
                    del.err, del.reqs, ZeroCredential)
        ELSE Result(NoState, del.remote, nid, << >>, NoErr, del.reqs, ZeroCredential)

\* credentialResource.Delete; with no error the framework removes the state
DeleteHandler(o, st, rem, nid) ==
    LET del == DeleteCredential(st.id, o, rem)
    IN  IF IsErr(del.err)
        THEN Result(st, del.remote, nid,
                    <<ErrDiag("Error deleting credential", st.id, del.err)>>,
                    del.err, del.reqs, ZeroCredential)
        ELSE Result(NoState, del.remote, nid, << >>, NoErr, del.reqs, ZeroCredential)

(***************************************************************************)
(* The plans Terraform applies: every block is null or known.              *)
(***************************************************************************)
BasicAuthValid == BasicAuth("user", "pass")
OAuth2Valid == OAuth2(<<"cid", "secret", "turl", "aurl", "scope">>, "", "false", "")
HeaderAuthValid == HeaderAuth("Authorization", "token")
BasicAuthNoUsername == BasicAuth(Null, "pass")

ApplyPlans ==
    [name : Names,
     basic_auth : {NullBlock, BasicAuthValid},
     oauth2 : {NullBlock, OAuth2Valid},
     header_auth : {NullBlock},
     nodes_access : {NullList} \cup {ListValue(l) : l \in NodeLists}]
    \cup [name : {"a"},
          basic_auth : {NullBlock},
          oauth2 : {NullBlock},
          header_auth : {HeaderAuthValid},
          nodes_access : {NullList}]
    \cup [name : {"a"},
          basic_auth : {BasicAuthNoUsername},
          oauth2 : {NullBlock},
          header_auth : {NullBlock},
          nodes_access : {NullList}]

\* what ModifyPlan may have been given for a plan that is applied: a block
\* known when Create or Update runs was known or still unknown at plan time
PlanTimeBlocks(block) == {block, UnknownBlock}
PlanTimeViews(plan) ==
    {[plan EXCEPT !.basic_auth = b, !.oauth2 = o, !.header_auth = h] :
         b \in PlanTimeBlocks(plan.basic_auth),
         o \in PlanTimeBlocks(plan.oauth2),
         h \in PlanTimeBlocks(plan.header_auth)}

\* Terraform applies a plan only if ModifyPlan added no error to it
Planned(plan) == \E view \in PlanTimeViews(plan) : ModifyPlan(view) = << >>

\* the server creates no credential once it has issued MaxIds ids
PostOutcomesAt(cred, nid) == {o \in PostOutcomes(cred) : ServerDid(o) => nid <= MaxIds}

\* the exchange of a request that is issued only if `issued`
OutcomesIf(issued, outcomes) == IF issued THEN outcomes ELSE {NoExchange}

(***************************************************************************)
(* The state machine.                                                      *)
(***************************************************************************)
NoPlan == [kind |-> "null"]

Idle ==
    [op |-> "Idle", plan |-> NoPlan, before |-> NoState, remoteBefore |-> {},
     diags |-> << >>, err |-> NoErr, reqs |-> << >>, cred |-> ZeroCredential]

Last(op, plan, r) ==
    [op |-> op, plan |-> plan, before |-> state, remoteBefore |-> remote,
     diags |-> r.diags, err |-> r.err, reqs |-> r.reqs, cred |-> r.cred]

NoInput == [fn |-> "none"]
NoOutput == [by |-> "none"]
NilClient == [kind |-> "nil"]          \* a nil *Client
NoCalls == << >>                       \* no client operation is running

Init ==
    /\ state = NoState
    /\ remote = {}
    /\ nextId = 1
    /\ last = Idle
    /\ input = NoInput
    /\ output = NoOutput
    /\ client = NilClient
    /\ calls = NoCalls

Apply(op, plan, r) ==
    /\ state' = r.state
    /\ remote' = r.remote
    /\ nextId' = r.nextId
    /\ last' = Last(op, plan, r)
    /\ UNCHANGED <<input, output, client, calls>>

\* whether the plan passes validateCredentialBlocks, so that a request follows
Valid(plan) == ~IsErr(validateCredentialBlocks(plan).err)
Sent(plan) == CredentialOf(plan, validateCredentialBlocks(plan))
Fails(o) == IsErr(doRequest(o, NoBody).err)

Create ==
    /\ last = Idle
    /\ state = NoState
    /\ \E plan \in ApplyPlans :
           /\ Planned(plan)
           /\ \E o \in OutcomesIf(Valid(plan), PostOutcomesAt(Sent(plan), nextId)) :
                  Apply("Create", plan, CreateHandler(plan, o, state, remote, nextId))

Read ==
    /\ last = Idle
    /\ state # NoState
    /\ \E og \in GetOutcomes(remote, state.id) :
           \E ol \in OutcomesIf(Fails(og), ListOutcomes) :
               Apply("Read", NoPlan, ReadHandler(og, ol, state, remote, nextId))

Update ==
    /\ last = Idle
    /\ state # NoState
    /\ \E plan \in ApplyPlans :
           /\ Planned(plan)
           /\ \E od \in OutcomesIf(Valid(plan), DeleteOutcomes(remote, state.id)) :
                  \E oc \in OutcomesIf(Valid(plan) /\ ~Fails(od),
                                       PostOutcomesAt(Sent(plan), nextId)) :
                      Apply("Update", plan, UpdateHandler(plan, od, oc, state, remote, nextId))

Delete ==
    /\ last = Idle
    /\ state # NoState
    /\ \E o \in DeleteOutcomes(remote, state.id) :
           Apply("Delete", NoPlan, DeleteHandler(o, state, remote, nextId))

\* someone else deletes a credential on the server
ExternalDelete ==
    /\ last = Idle
    /\ \E id \in remote :
           /\ remote' = remote \ {id}
           /\ UNCHANGED <<state, nextId, last, input, output, client, calls>>

\* the handler has returned; Terraform calls the next one
Return ==
    /\ last # Idle
    /\ last' = Idle
    /\ UNCHANGED <<state, remote, nextId, input, output, client, calls>>

Next == Create \/ Read \/ Update \/ Delete \/ ExternalDelete \/ Return

Spec == Init /\ [][Next]_vars

(***************************************************************************)
(* The block checks on their own: validateCredentialBlocks and ModifyPlan  *)
(* applied to a plan whose blocks are null, unknown or known, with every   *)
(* attribute of a known block null, unknown or set.                        *)
(***************************************************************************)
StringValues == {Null, Unknown, "v"}
BoolValues == {Null, "true", "false"}

BasicAuthBlocks == {BasicAuth(u, pw) : u \in StringValues, pw \in StringValues}
HeaderAuthBlocks == {HeaderAuth(n, v) : n \in StringValues, v \in StringValues}
OAuth2Blocks ==
    {OAuth2(m, q, sp, ap) : m \in [1..5 -> StringValues], q \in {Null, "q"},
                            sp \in BoolValues, ap \in {Null, "p"}}

Absent == {NullBlock, UnknownBlock}

PlanOf(basic, oauth2, header) ==
    [name |-> "a", basic_auth |-> basic, oauth2 |-> oauth2, header_auth |-> header,
     nodes_access |-> NullList]

BlockPlans ==
    {PlanOf(b, o, h) : b \in Absent \cup {BasicAuthValid, BasicAuth(Null, "v")},
                       o \in Absent \cup {OAuth2Valid},
                       h \in Absent \cup {HeaderAuthValid, HeaderAuth("v", Unknown)}}
    \cup {PlanOf(b, o, h) : b \in BasicAuthBlocks, o \in Absent, h \in Absent}
    \cup {PlanOf(b, o, h) : b \in Absent, o \in OAuth2Blocks, h \in Absent}
    \cup {PlanOf(b, o, h) : b \in Absent, o \in Absent, h \in HeaderAuthBlocks}

InitBlocks ==
    /\ state = NoState
    /\ remote = {}
    /\ nextId = 1
    /\ last = Idle
    /\ input \in {[fn |-> "blocks", plan |-> pl] : pl \in BlockPlans}
    /\ output = NoOutput
    /\ client = NilClient
    /\ calls = NoCalls

\* Create and Update call validateCredentialBlocks on the plan
Validate ==
    /\ output = NoOutput
    /\ output' = [by |-> "validateCredentialBlocks", res |-> validateCredentialBlocks(input.plan)]
    /\ UNCHANGED <<state, remote, nextId, last, input, client, calls>>

\* Terraform calls ModifyPlan on the plan
PlanCheck ==
    /\ output = NoOutput
    /\ output' = [by |-> "ModifyPlan", diags |-> ModifyPlan(input.plan)]
    /\ UNCHANGED <<state, remote, nextId, last, input, client, calls>>

\* Terraform calls ModifyPlan on the plan, then Create or Update validates it
PlanCheckThenValidate ==
    /\ output = NoOutput
    /\ output' = [by |-> "ModifyPlan, validateCredentialBlocks",
                  diags |-> ModifyPlan(input.plan),
                  res |-> validateCredentialBlocks(input.plan)]
    /\ UNCHANGED <<state, remote, nextId, last, input, client, calls>>

NextBlocks == Validate \/ PlanCheck \/ PlanCheckThenValidate

SpecBlocks == InitBlocks /\ [][NextBlocks]_vars

(***************************************************************************)
(* The plan modifiers of the schema: which attributes of a plan require    *)
(* the resource to be replaced, given the state.  Equal compares lists     *)
(* element by element, in order.                                           *)
(***************************************************************************)
Equal(a, b) == a = b

\* stringplanmodifier.RequiresReplace(), for a resource with a state and a plan
RequiresReplaceString(stateValue, planValue) == ~Equal(planValue, stateValue)

\* PlanModifyList, were null against non-null not handled
PlanModifyList_noNullCase(stateValue, planValue) ==
    IF ~IsNull(stateValue) /\ ~IsNull(planValue)
    THEN ~Equal(stateValue, planValue)
    ELSE FALSE

\* requiresReplaceListModifier.PlanModifyList: resp.RequiresReplace
PlanModifyList(stateValue, planValue) ==
    IF ~IsNull(stateValue) /\ ~IsNull(planValue)
    THEN ~Equal(stateValue, planValue)
    ELSE IsNull(stateValue) # IsNull(planValue)

\* requiresReplaceObjectModifier.PlanModifyObject: resp.RequiresReplace
PlanModifyObject(stateValue, planValue) ==
    IF ~IsNull(stateValue) /\ ~IsNull(planValue)
    THEN ~Equal(stateValue, planValue)
    ELSE IsNull(stateValue) # IsNull(planValue)

\* requiresReplaceBoolModifier.PlanModifyBool: resp.RequiresReplace
PlanModifyBool(stateValue, planValue) ==
    IF stateValue # Null /\ planValue # Null
    THEN ValueBool(stateValue) # ValueBool(planValue)
    ELSE (stateValue = Null) # (planValue = Null)

\* the attributes of each block, by the plan modifier the schema gives them
BlockFields == {"basic_auth", "oauth2", "header_auth"}
StringFields(f) ==
    CASE f = "basic_auth" -> {"username", "password"}
      [] f = "oauth2" -> {"client_id", "client_secret", "access_token_url", "auth_url", "scope",
                          "auth_query_parameters", "additional_body_properties"}
      [] f = "header_auth" -> {"name", "value"}
BoolFields(f) == IF f = "oauth2" THEN {"send_additional_body_properties"} ELSE {}

\* the blocks that are objects in state and in plan: their attributes' modifiers run
InBoth(st, plan) == {f \in BlockFields : IsDefined(st[f]) /\ IsDefined(plan[f])}

\* the paths for which a plan modifier sets RequiresReplace
RequiresReplace(st, plan) ==
    (IF RequiresReplaceString(st.name, plan.name) THEN {<<"name">>} ELSE {})
    \cup (IF PlanModifyList(st.nodes_access, plan.nodes_access) THEN {<<"nodes_access">>} ELSE {})
    \cup {<<f>> : f \in {g \in BlockFields : PlanModifyObject(st[g], plan[g])}}
    \cup UNION {{<<f, x>> : x \in {y \in StringFields(f) :
                                      RequiresReplaceString(st[f][y], plan[f][y])}} :
                    f \in InBoth(st, plan)}
    \cup UNION {{<<f, x>> : x \in {y \in BoolFields(f) : PlanModifyBool(st[f][y], plan[f][y])}} :
                    f \in InBoth(st, plan)}

\* what Terraform does with the plan: replace the resource when a path
\* requires it, update it in place when the plan differs otherwise
PlannedChange(st, plan) ==
    IF RequiresReplace(st, plan) # {} THEN "replace"
    ELSE IF \E a \in {"name", "nodes_access"} \cup BlockFields : st[a] # plan[a] THEN "update"
    ELSE "none"

(***************************************************************************)
(* The plan modifiers on their own, applied to a state and a plan.         *)
(***************************************************************************)
PlanNodeLists == {<< >>, <<"n1">>, <<"n1", "n2">>, <<"n2", "n1">>}
PlanNodesAccess == {NullList} \cup {ListValue(l) : l \in PlanNodeLists}

OAuth2Other == OAuth2(<<"cid", "secret", "turl", "aurl", "scope">>, "", "true", "")
OAuth2Unset == OAuth2(<<"cid", "secret", "turl", "aurl", "scope">>, Null, Null, Null)

PlanBlocks ==
    {<<b, o, h>> : b \in {NullBlock, BasicAuthValid, BasicAuth("user", "other")},
                   o \in {NullBlock},
                   h \in {NullBlock, HeaderAuthValid}}
    \cup {<<NullBlock, o, NullBlock>> : o \in {OAuth2Valid, OAuth2Other, OAuth2Unset}}

Attributes(name, blocks, nodes) ==
    [name |-> name, basic_auth |-> blocks[1], oauth2 |-> blocks[2], header_auth |-> blocks[3],
     nodes_access |-> nodes]

PlanStates == {Attributes(n, b, l) : n \in Names, b \in PlanBlocks, l \in PlanNodesAccess}

InitPlan ==
    /\ state = NoState
    /\ remote = {}
    /\ nextId = 1
    /\ last = Idle
    /\ input \in {[fn |-> "plan", state |-> st, plan |-> pl] :
                       st \in {x \in PlanStates : BlocksDefined(x) = 1}, pl \in PlanStates}
    /\ output = NoOutput
    /\ client = NilClient
    /\ calls = NoCalls

\* Terraform runs the plan modifiers on the plan against the state
PlanModify ==
    /\ output = NoOutput
    /\ output' = [by |-> "PlanModifiers",
                  replace |-> RequiresReplace(input.state, input.plan),
                  change |-> PlannedChange(input.state, input.plan)]
    /\ UNCHANGED <<state, remote, nextId, last, input, client, calls>>

NextPlan == PlanModify

SpecPlan == InitPlan /\ [][NextPlan]_vars

(***************************************************************************)
(* doRequest on its own, applied to one exchange.                          *)
(***************************************************************************)
RequestStatuses == {100, 199, 200, 201, 204, 299, 300, 301, 400, 404, 500}
RawBodies == {NoBody, TextBody(""), TextBody("denied"),
              CredBody("object", [id |-> 1, name |-> "a", nodes |-> << >>])}

\* the request is not sent when marshaling or constructing it fails; a
\* response's body is read only when the response arrived
Exchanges ==
    {[NoExchange EXCEPT !.fail = f] : f \in {"none", "marshal", "request"}}
    \cup {[NoExchange EXCEPT !.reach = TRUE, !.lost = l, !.fail = f, !.status = s] :
              l \in BOOLEAN, f \in {"none", "read"}, s \in RequestStatuses}

InitRequest ==
    /\ state = NoState
    /\ remote = {}
    /\ nextId = 1
    /\ last = Idle
    /\ input \in {[fn |-> "doRequest", o |-> o, raw |-> raw] : o \in Exchanges, raw \in RawBodies}
    /\ output = NoOutput
    /\ client = NilClient
    /\ calls = NoCalls

\* a client operation calls doRequest
DoRequest ==
    /\ output = NoOutput
    /\ output' = [by |-> "doRequest", res |-> doRequest(input.o, input.raw)]
    /\ UNCHANGED <<state, remote, nextId, last, input, client, calls>>

NextRequest == DoRequest

SpecRequest == InitRequest /\ [][NextRequest]_vars

(***************************************************************************)
(* The provider: Configure and NewClient.  A pointer argument of NewClient *)
(* is Nil or points to a value; bools are "true" and "false".              *)
(***************************************************************************)
Nil == "nil"
RequiredError(what) == [kind |-> "required", what |-> what, ctx |-> << >>]

\* NewClient, were only nil pointers refused
NewClient_acceptsEmpty(host, apiKey, insecure) ==
    IF host = Nil
    THEN [client |-> NilClient, err |-> RequiredError("host")]
    ELSE IF apiKey = Nil
    THEN [client |-> NilClient, err |-> RequiredError("api_key")]
    ELSE [client |-> [kind |-> "client", Host |-> host, APIKey |-> apiKey,
                      Insecure |-> insecure # Nil /\ ValueBool(insecure),
                      InsecureSkipVerify |-> insecure # Nil /\ ValueBool(insecure),
                      Timeout |-> "defaultTimeout"],
          err |-> NoErr]

\* NewClient, were a nil insecure taken for true
NewClient_insecureByDefault(host, apiKey, insecure) ==
    IF host = Nil \/ host = ""
    THEN [client |-> NilClient, err |-> RequiredError("host")]
    ELSE IF apiKey = Nil \/ apiKey = ""
    THEN [client |-> NilClient, err |-> RequiredError("api_key")]
    ELSE [client |-> [kind |-> "client", Host |-> host, APIKey |-> apiKey,
                      Insecure |-> insecure = Nil \/ ValueBool(insecure),
                      InsecureSkipVerify |-> insecure = Nil \/ ValueBool(insecure),
                      Timeout |-> "defaultTimeout"],
          err |-> NoErr]

\* NewClient
NewClient(host, apiKey, insecure) ==
    IF host = Nil \/ host = ""
    THEN [client |-> NilClient, err |-> RequiredError("host")]
    ELSE IF apiKey = Nil \/ apiKey = ""
    THEN [client |-> NilClient, err |-> RequiredError("api_key")]
    ELSE [client |-> [kind |-> "client", Host |-> host, APIKey |-> apiKey,
                      Insecure |-> insecure # Nil /\ ValueBool(insecure),
                      InsecureSkipVerify |-> insecure # Nil /\ ValueBool(insecure),
                      Timeout |-> "defaultTimeout"],
          err |-> NoErr]

\* the attribute errors of Configure for unknown values
UnknownDiags(config) ==
    (IF config.host = Unknown THEN <<Diag("Unknown n8n API Host", <<"host">>)>> ELSE << >>)
    \o (IF config.api_key = Unknown THEN <<Diag("Unknown n8n API Key", <<"api_key">>)>> ELSE << >>)

\* the attribute errors of Configure for empty values
MissingDiags(host, apiKey) ==
    (IF host = "" THEN <<Diag("Missing n8n API Host", <<"host">>)>> ELSE << >>)
    \o (IF apiKey = "" THEN <<Diag("Missing n8n API Key", <<"api_key">>)>> ELSE << >>)

\* n8nProvider.Configure: the diagnostics and resp.ResourceData.  It is given
\* the provider block only; it reads nothing of the process environment.
Configure(config) ==
    LET host == ValueString(config.host)
        apiKey == ValueString(config.api_key)
        insecure == IF config.insecure # Null THEN ValueBool(config.insecure) ELSE FALSE
        new == NewClient(host, apiKey, IF insecure THEN "true" ELSE "false")
    IN  IF UnknownDiags(config) # << >>
        THEN [diags |-> UnknownDiags(config), client |-> NilClient]
        ELSE IF MissingDiags(host, apiKey) # << >>
        THEN [diags |-> MissingDiags(host, apiKey), client |-> NilClient]
        ELSE IF IsErr(new.err)
        THEN [diags |-> <<ErrDiag("Unable to Create n8n API Client", EmptyId, new.err)>>,
              client |-> NilClient]
        ELSE [diags |-> << >>, client |-> new.client]

(***************************************************************************)
(* Configure and NewClient on their own.                                   *)
(***************************************************************************)
Unset == "unset"                       \* an environment variable that is not set
HostValues == {Null, Unknown, "", "https://cfg"}
KeyValues == {Null, Unknown, "", "cfg-key"}
InsecureValues == {Null, Unknown, "true", "false"}
ProviderConfigs == [host : HostValues, api_key : KeyValues, insecure : InsecureValues]
Environments == [N8N_HOST : {Unset, "https://env"}, N8N_API_KEY : {Unset, "env-key"}]

HostPointers == {Nil, "", "https://a", "https://b"}
KeyPointers == {Nil, "", "key-a", "key-b"}
BoolPointers == {Nil, "true", "false"}

InitClient ==
    /\ state = NoState
    /\ remote = {}
    /\ nextId = 1
    /\ last = Idle
    /\ input \in {[fn |-> "Configure", config |-> c, env |-> e] :
                      c \in ProviderConfigs, e \in Environments}
                 \cup {[fn |-> "NewClient", host |-> h, apiKey |-> k, insecure |-> i] :
                           h \in HostPointers, k \in KeyPointers, i \in BoolPointers}
    /\ output = NoOutput
    /\ client = NilClient
    /\ calls = NoCalls

\* Terraform configures the provider, in a process with the environment input.env
ConfigureProvider ==
    /\ input.fn = "Configure"
    /\ output = NoOutput
    /\ output' = [by |-> "Configure", res |-> Configure(input.config)]
    /\ UNCHANGED <<state, remote, nextId, last, input, client, calls>>

\* NewClient is called
CallNewClient ==
    /\ input.fn = "NewClient"
    /\ output = NoOutput
    /\ output' = [by |-> "NewClient", res |-> NewClient(input.host, input.apiKey, input.insecure)]
    /\ UNCHANGED <<state, remote, nextId, last, input, client, calls>>

NextClient == ConfigureProvider \/ CallNewClient

SpecClient == InitClient /\ [][NextClient]_vars

(***************************************************************************)
(* One configuration that does not change: it is created, read any number  *)
(* of times, and planned again against the state.                          *)
(***************************************************************************)
Configurations ==
    [name : Names,
     basic_auth : {BasicAuthValid},
     oauth2 : {NullBlock},
     header_auth : {NullBlock},
     nodes_access : {NullList} \cup {ListValue(l) : l \in NodeLists}]

InitConverge ==
    /\ state = NoState
    /\ remote = {}
    /\ nextId = 1
    /\ last = Idle
    /\ input \in {[fn |-> "configuration", plan |-> pl] : pl \in Configurations}
    /\ output = NoOutput
    /\ client = NilClient
    /\ calls = NoCalls

\* Terraform creates the resource from the configuration
CreateConfigured ==
    /\ last = Idle
    /\ state = NoState
    /\ Planned(input.plan)
    /\ \E o \in PostOutcomesAt(Sent(input.plan), nextId) :
           Apply("Create", input.plan, CreateHandler(input.plan, o, state, remote, nextId))

\* Terraform refreshes the resource
ReadConfigured == output = NoOutput /\ Read

\* the handler has returned
ReturnConfigured == output = NoOutput /\ Return

\* Terraform plans the same configuration against the state Read left
PlanAgain ==
    /\ last.op = "Read"
    /\ output = NoOutput
    /\ output' = [by |-> "PlanModifiers",
                  state |-> state,
                  read |-> last.cred,
                  readErr |-> last.err,
                  replace |-> RequiresReplace(state, input.plan),
                  change |-> PlannedChange(state, input.plan)]
    /\ last' = Idle
    /\ UNCHANGED <<state, remote, nextId, input, client, calls>>

NextConverge == CreateConfigured \/ ReadConfigured \/ ReturnConfigured \/ PlanAgain

SpecConverge == InitConverge /\ [][NextConverge]_vars

(***************************************************************************)
(* Client operations on different credentials running at the same time on  *)
(* the one *Client.  A doRequest call is three steps: the request is built *)
(* from c.Host and c.APIKey, c.client.Do sends it and gets the response,   *)
(* and the response is read and handed back to the operation.  Everything  *)
(* but the Client is local to the call.                                    *)
(***************************************************************************)
Process == {"one", "other"}
Operations == {"CreateCredential", "GetCredential", "DeleteCredential", "UpdateCredential"}
apiVersion == "v1"

\* the credential CreateCredential and UpdateCredential are given
Given == [id |-> EmptyId, name |-> "a", nodes |-> << >>]

\* a client operation that has not started, and its locals
Called(op, id) ==
    [op |-> op, id |-> id, pc |-> "call", req |-> NoBody, sent |-> << >>, got |-> << >>,
     cred |-> ZeroCredential, err |-> NoErr]

\* the responses of the server: the exchange and the raw body it carries
ListedAll == [i \in Ids |-> [id |-> i, name |-> "a", nodes |-> << >>]]
Responses ==
    {[o |-> NoExchange, raw |-> NoBody],
     [o |-> Failed(404, "gone"), raw |-> TextBody("gone")],
     [o |-> Answered(200, "text"), raw |-> TextBody("<html>")],
     [o |-> Answered(200, "data_array"), raw |-> ListBody("data_array", ListedAll)]}
    \cup {[o |-> Answered(200, "object"),
           raw |-> CredBody("object", [id |-> i, name |-> "a", nodes |-> << >>])] : i \in Ids}

\* the method, endpoint and body of the operation's next doRequest call
Call(k) ==
    CASE k.op = "CreateCredential" -> [method |-> "POST", id |-> NoId, body |-> Given]
      [] k.op = "DeleteCredential" -> [method |-> "DELETE", id |-> k.id, body |-> NoBody]
      [] k.op = "GetCredential" ->
             IF k.got = << >>
             THEN [method |-> "GET", id |-> k.id, body |-> NoBody]
             ELSE [method |-> "GET", id |-> NoId, body |-> NoBody]
      [] k.op = "UpdateCredential" ->
             IF k.got = << >>
             THEN [method |-> "DELETE", id |-> k.id, body |-> NoBody]
             ELSE [method |-> "POST", id |-> NoId, body |-> Given]

\* doRequest up to client.Do: the url and the headers are read from the Client
NewRequest(c, call) ==
    [method |-> call.method, url |-> <<c.Host, "api", apiVersion, call.id>>,
     key |-> c.APIKey, body |-> call.body]

\* the Client after doRequest built a request, were the url kept in c.Host
ClientAfter_keepsUrl(c, req) == [c EXCEPT !.Host = req.url]

\* the Client after doRequest built a request: no field is assigned
ClientAfter(c, req) == c

Built(c, k) == [k EXCEPT !.pc = "built", !.req = NewRequest(c, Call(k))]

\* client.Do: the request is sent and r is what comes back
Done(k, r) == [k EXCEPT !.pc = "answered", !.sent = Append(@, k.req), !.got = Append(@, r)]

\* what CreateCredential makes of doRequest's result
Created(res) ==
    LET dec == UnmarshalCredential(res.body)
    IN  [cred |-> IF IsErr(res.err) THEN ZeroCredential ELSE dec.cred,
         err |-> IF IsErr(res.err) THEN res.err
                 ELSE WrapIf("error unmarshaling response", dec.err)]

\* what ListCredentials and the loop of GetCredential make of doRequest's result
Found(res, id) ==
    LET dec == UnmarshalList(res.body)
        fnd == Scan(dec.list, id)
    IN  IF IsErr(res.err)
        THEN [cred |-> ZeroCredential, err |-> Wrap("error listing credentials", res.err)]
        ELSE IF IsErr(dec.err)
        THEN [cred |-> ZeroCredential,
              err |-> Wrap("error listing credentials",
                           Wrap("error unmarshaling response", dec.err))]
        ELSE fnd

Returns(k, r) == [k EXCEPT !.pc = "done", !.cred = r.cred, !.err = r.err]

\* the rest of doRequest and what the operation does with its result: it
\* returns, or goes on to its second call
Finished(k) ==
    LET r == k.got[Len(k.got)]
        res == doRequest(r.o, r.raw)
        first == Len(k.got) = 1
    IN  CASE k.op = "CreateCredential" -> Returns(k, Created(res))
          [] k.op = "DeleteCredential" ->
                 Returns(k, [cred |-> ZeroCredential, err |-> res.err])
          [] k.op = "GetCredential" ->
                 IF first
                 THEN IF ~IsErr(res.err)
                      THEN Returns(k, [cred |-> UnmarshalCredential(res.body).cred,
                                       err |-> WrapIf("error unmarshaling response",
                                                      UnmarshalCredential(res.body).err)])
                      ELSE [k EXCEPT !.pc = "call"]
                 ELSE Returns(k, Found(res, k.id))
          [] k.op = "UpdateCredential" ->
                 IF first
                 THEN IF IsErr(res.err)
                      THEN Returns(k, [cred |-> ZeroCredential,
                                       err |-> Wrap("failed to delete old credential before update",
                                                    res.err)])
                      ELSE [k EXCEPT !.pc = "call"]
                 ELSE Returns(k, [cred |-> Created(res).cred,
                                  err |-> WrapIf("failed to create new credential after delete",
                                                 Created(res).err)])

\* the operation run on its own with the Client c, its calls answered by rs in order
RECURSIVE Alone(_, _, _)
Alone(c, k, rs) ==
    IF k.pc = "done" \/ rs = << >> THEN k
    ELSE Alone(c, Finished(Done(Built(c, k), Head(rs))), Tail(rs))

InitShared ==
    /\ state = NoState
    /\ remote = {}
    /\ nextId = 1
    /\ last = Idle
    /\ input \in {[fn |-> "NewClient", host |-> "https://a", apiKey |-> "key-a", insecure |-> i] :
                      i \in BoolPointers}
    /\ output = NoOutput
    /\ client = NewClient(input.host, input.apiKey, input.insecure).client
    /\ \E one \in Ids, other \in Ids :
           /\ one # other
           /\ calls \in [Process -> {Called(op, id) : op \in Operations, id \in {one, other}}]
           /\ calls["one"].id = one
           /\ calls["other"].id = other

\* doRequest builds the request of a call
Build(p) ==
    /\ calls[p].pc = "call"
    /\ calls' = [calls EXCEPT ![p] = Built(client, @)]
    /\ client' = ClientAfter(client, calls'[p].req)
    /\ UNCHANGED <<state, remote, nextId, last, input, output>>

\* client.Do sends the request and the server answers
Do(p) ==
    /\ calls[p].pc = "built"
    /\ \E r \in Responses : calls' = [calls EXCEPT ![p] = Done(@, r)]
    /\ UNCHANGED <<state, remote, nextId, last, input, output, client>>

\* doRequest returns and the operation goes on
Finish(p) ==
    /\ calls[p].pc = "answered"
    /\ calls' = [calls EXCEPT ![p] = Finished(@)]
    /\ UNCHANGED <<state, remote, nextId, last, input, output, client>>

NextShared == \E p \in Process : Build(p) \/ Do(p) \/ Finish(p)

SpecShared == InitShared /\ [][NextShared]_vars

(***************************************************************************)
(* Properties.                                                             *)
(***************************************************************************)
DeletePrefix == "failed to delete old credential before update"
CreatePrefix == "failed to create new credential after delete"

\* Update called UpdateCredential, whose DELETE of the old id failed
DeleteStepFailed ==
    /\ last.op = "Update"
    /\ Len(last.reqs) >= 1
    /\ IsErr(last.reqs[1].err)

\* Update called UpdateCredential, whose DELETE succeeded and whose create failed
CreateStepFailed ==
    /\ last.op = "Update"
    /\ Len(last.reqs) = 2
    /\ ~IsErr(last.reqs[1].err)
    /\ IsErr(last.err)

\* Update called UpdateCredential, which deleted, created and returned no error
ReplaceSucceeded ==
    /\ last.op = "Update"
    /\ Len(last.reqs) = 2
    /\ ~IsErr(last.err)

\* C1: when the DELETE of the old id fails, UpdateCredential issues no POST,
\* the operation returns an error, and the server holds no credential it did
\* not hold before.
C1_NoCreateAfterFailedDelete ==
    DeleteStepFailed =>
        /\ last.reqs[1].method = "DELETE"
        /\ last.reqs[1].id = last.before.id
        /\ \A i \in 1..Len(last.reqs) : last.reqs[i].method # "POST"
        /\ IsErr(last.err)
        /\ last.diags # << >>
        /\ remote \subseteq last.remoteBefore

C1_Witness ==
    /\ DeleteStepFailed
    /\ last.reqs[1].err.kind = "api"
    /\ last.before.id \in last.remoteBefore

\* C2 as claimed: when the delete step fails with an API error, the error
\* UpdateCredential returns is that same error, with nothing added or altered.
C2_SameErrorUnchanged ==
    (DeleteStepFailed /\ last.reqs[1].err.kind = "api") =>
        last.err = last.reqs[1].err

\* C2 as amended: when the delete step fails with an API error, the error
\* UpdateCredential returns wraps it: the same status and body, with the
\* prefix "failed to delete old credential before update" added in front.
C2_DeleteErrorWrapped ==
    (DeleteStepFailed /\ last.reqs[1].err.kind = "api") =>
        /\ last.err.kind = "api"
        /\ last.err.status = last.reqs[1].err.status
        /\ last.err.body = last.reqs[1].err.body
        /\ last.err.ctx = <<DeletePrefix>> \o last.reqs[1].err.ctx

C2_Witness ==
    /\ DeleteStepFailed
    /\ last.reqs[1].err.kind = "api"
    /\ last.reqs[1].err.status = 404
    /\ last.reqs[1].err.body = TextBody("gone")

\* C3: when the delete step and the create step both succeed, the id of the
\* credential returned, which is the id then stored in state, is not the old id.
C3_ReplaceChangesId ==
    ReplaceSucceeded =>
        /\ last.cred.id # last.before.id
        /\ state.id = last.cred.id
        /\ state.id # last.before.id

C3_Witness ==
    /\ ReplaceSucceeded
    /\ last.before.id \in last.remoteBefore
    /\ state.id \in remote

\* C4 as claimed: when the delete step succeeds and the create step fails,
\* the server holds neither the old credential nor a new one, and the error
\* is not the one returned when the delete step fails.
C4_NeitherOldNorNew ==
    CreateStepFailed =>
        /\ last.before.id \notin remote
        /\ remote \subseteq last.remoteBefore
        /\ last.err.ctx[1] = CreatePrefix
        /\ CreatePrefix # DeletePrefix

\* C5: when GetCredential fails, in whichever way, Read reports no error and
\* the state after Read is the state before it.
C5_ReadFailureKeepsState ==
    (last.op = "Read" /\ IsErr(last.err)) =>
        /\ last.diags = << >>
        /\ state = last.before

C5_Witness ==
    /\ last.op = "Read"
    /\ last.err.kind = "notfound"
    /\ state # NoState

\* the direct GET failed: doRequest returned an error or the body did not decode
DirectGetFailed ==
    \/ IsErr(last.reqs[1].err)
    \/ IsErr(UnmarshalCredential(last.reqs[1].body).err)

\* C6 as claimed: GetCredential issues the GET by id first, and whenever it
\* fails for any reason (status, network, undecodable body) lists the
\* credentials next.
C6_FallbackOnAnyFailure ==
    last.op = "Read" =>
        /\ Len(last.reqs) >= 1
        /\ last.reqs[1].method = "GET"
        /\ last.reqs[1].id = last.before.id
        /\ DirectGetFailed =>
               /\ Len(last.reqs) = 2
               /\ last.reqs[2].method = "GET"
               /\ last.reqs[2].id = NoId

\* ListCredentials was called and returned a list
ListSucceeded ==
    /\ Len(last.reqs) = 2
    /\ ~IsErr(last.reqs[2].err)
    /\ ~IsErr(UnmarshalList(last.reqs[2].body).err)

Listed == UnmarshalList(last.reqs[2].body).list

\* C7: GetCredential returns not-found exactly when the direct GET failed, the
\* list call succeeded and no listed credential has the id; a credential the
\* fallback returns has the id asked for.
C7_NotFoundExactly ==
    last.op = "Read" =>
        /\ last.err.kind = "notfound" <=>
               /\ IsErr(last.reqs[1].err)
               /\ ListSucceeded
               /\ \A i \in 1..Len(Listed) : Listed[i].id # last.before.id
        /\ (Len(last.reqs) = 2 /\ ~IsErr(last.err)) => last.cred.id = last.before.id

C7_Witness ==
    /\ last.op = "Read"
    /\ ListSucceeded
    /\ Len(Listed) = 2
    /\ ~IsErr(last.err)
    /\ last.cred.id = Listed[2].id

\* C8: a successful Read leaves basic_auth, oauth2 and header_auth as they were.
C8_ReadKeepsBlocks ==
    (last.op = "Read" /\ ~IsErr(last.err)) =>
        /\ state.basic_auth = last.before.basic_auth
        /\ state.oauth2 = last.before.oauth2
        /\ state.header_auth = last.before.header_auth

C8_Witness ==
    /\ last.op = "Read"
    /\ ~IsErr(last.err)
    /\ state.name # last.before.name
    /\ state.nodes_access # last.before.nodes_access
    /\ state.oauth2 = OAuth2Valid

\* Create called CreateCredential, which returned no error
CreateSucceeded ==
    /\ last.op = "Create"
    /\ Len(last.reqs) = 1
    /\ ~IsErr(last.err)

\* C9: after a successful Create the id in state is the id the response
\* carries, the id of the credential the server created, and the blocks in
\* state are the declared ones.
C9_CreateStoresIdKeepsPayload ==
    CreateSucceeded =>
        /\ state.id = UnmarshalCredential(last.reqs[1].body).cred.id
        /\ last.reqs[1].body.form = "object" => state.id \in remote \ last.remoteBefore
        /\ state.basic_auth = last.plan.basic_auth
        /\ state.oauth2 = last.plan.oauth2
        /\ state.header_auth = last.plan.header_auth

C9_Witness ==
    /\ CreateSucceeded
    /\ last.reqs[1].body.form = "object"
    /\ state.id \in Ids
    /\ state.basic_auth = BasicAuthValid
    /\ state.name # last.plan.name

\* the blocks of the plan that are present
PresentBlocks(pl) == {f \in {"basic_auth", "oauth2", "header_auth"} : pl[f].kind = "obj"}
HasUnknownBlock(pl) == \E f \in {"basic_auth", "oauth2", "header_auth"} : pl[f].kind = "unknown"
RemoteTypeOf(f) ==
    CASE f = "basic_auth" -> "httpBasicAuth"
      [] f = "oauth2" -> "oAuth2Api"
      [] f = "header_auth" -> "httpHeaderAuth"
SummariesOf(diags) == {diags[i].summary : i \in 1..Len(diags)}

\* C10: validateCredentialBlocks fails when no block or more than one is
\* present, and with exactly one returns the remote type of that block and a
\* payload; ModifyPlan reports the same two failures for a configuration whose
\* blocks are present or absent.
C10_ShapeSelection ==
    /\ output.by = "validateCredentialBlocks" =>
           /\ Cardinality(PresentBlocks(input.plan)) # 1 =>
                  /\ IsErr(output.res.err)
                  /\ output.res.err.found = Cardinality(PresentBlocks(input.plan))
           /\ \A f \in PresentBlocks(input.plan) :
                  PresentBlocks(input.plan) = {f} =>
                      /\ ~IsErr(output.res.err)
                      /\ output.res.type = RemoteTypeOf(f)
                      /\ output.res.data # NoData
    /\ (output.by = "ModifyPlan" /\ ~HasUnknownBlock(input.plan)) =>
           /\ Cardinality(PresentBlocks(input.plan)) = 0 =>
                  SummariesOf(output.diags) = {"Missing Credential Block"}
           /\ Cardinality(PresentBlocks(input.plan)) > 1 =>
                  SummariesOf(output.diags) = {"Multiple Credential Blocks"}
           /\ Cardinality(PresentBlocks(input.plan)) = 1 =>
                  SummariesOf(output.diags) \subseteq {"Missing Required Attribute"}

C10_Witness ==
    /\ output.by = "validateCredentialBlocks"
    /\ PresentBlocks(input.plan) = {"oauth2"}
    /\ input.plan.basic_auth = UnknownBlock
    /\ output.res.type = "oAuth2Api"

\* the mandatory fields of a block
MandatoryFields(f) ==
    CASE f = "basic_auth" -> {"username", "password"}
      [] f = "oauth2" -> {"client_id", "client_secret", "access_token_url", "auth_url", "scope"}
      [] f = "header_auth" -> {"name", "value"}

\* the mandatory fields of block f that the plan leaves out
Omitted(pl, f) == {x \in MandatoryFields(f) : pl[f][x] = Null}

\* the plan has no block, several blocks, or a block without a mandatory field
HasConfigurationError(pl) ==
    \/ Cardinality(PresentBlocks(pl)) # 1
    \/ \E f \in PresentBlocks(pl) : Omitted(pl, f) # {}

\* C11 as claimed: a Create or Update whose plan has no block, several blocks,
\* or a block without one of its mandatory fields issues no HTTP request.
C11_NoRequestOnConfigurationError ==
    (last.op \in {"Create", "Update"} /\ HasConfigurationError(last.plan)) =>
        last.reqs = << >>

\* what the attribute errors of ModifyPlan name: <<block, field>> pairs
NamedBy(diags) ==
    {diags[i].names : i \in {j \in 1..Len(diags) : diags[j].summary = "Missing Required Attribute"}}

\* C12 as claimed: when the one block present leaves out some of its mandatory
\* fields, ModifyPlan fails and its field-level errors name exactly the fields
\* left out, all of them in the same pass.
C12_NamesExactlyOmitted ==
    output.by = "ModifyPlan" =>
        \A f \in PresentBlocks(input.plan) :
            (PresentBlocks(input.plan) = {f} /\ Omitted(input.plan, f) # {}) =>
                /\ output.diags # << >>
                /\ SummariesOf(output.diags) = {"Missing Required Attribute"}
                /\ NamedBy(output.diags) = {<<f, x>> : x \in Omitted(input.plan, f)}

\* the block names that the text of an error contains
BlocksNamedIn(err) ==
    CASE err.kind = "config"
         /\ err.msg = "exactly one credential block must be specified (basic_auth, oauth2, or header_auth)"
           -> {"basic_auth", "oauth2", "header_auth"}
      [] OTHER -> {}

\* the block names that the diagnostics of ModifyPlan contain
BlocksNamedBy(diags) ==
    UNION {{diags[i].names[j] : j \in 1..Len(diags[i].names)} :
               i \in {k \in 1..Len(diags) : diags[k].summary = "Multiple Credential Blocks"}}

\* C13 as claimed: when more than one block is present, the error names every
\* block present, both from ModifyPlan and from the validateCredentialBlocks
\* that Create and Update run.
C13_NamesEveryBlock ==
    Cardinality(PresentBlocks(input.plan)) > 1 =>
        /\ output.by = "ModifyPlan" => BlocksNamedBy(output.diags) = PresentBlocks(input.plan)
        /\ output.by = "validateCredentialBlocks" =>
               /\ IsErr(output.res.err)
               /\ BlocksNamedIn(output.res.err) = PresentBlocks(input.plan)

\* the part of C13 that holds: ModifyPlan names every block present
C13_ModifyPlanNamesEveryBlock ==
    (output.by = "ModifyPlan" /\ Cardinality(PresentBlocks(input.plan)) > 1) =>
        BlocksNamedBy(output.diags) = PresentBlocks(input.plan)

\* the attributes in which state and plan differ
Differing(st, pl) == {a \in {"name", "nodes_access"} \cup BlockFields : st[a] # pl[a]}

\* C14: whenever state and plan differ in name, in a block (present against
\* absent, or in any of its fields) or in nodes_access (null against non-null
\* included), a plan modifier requires replace for each differing attribute,
\* and the change is a replace, not an update in place.
C14_ChangeIsReplace ==
    output.by = "PlanModifiers" =>
        /\ \A a \in Differing(input.state, input.plan) : <<a>> \in output.replace
        /\ Differing(input.state, input.plan) # {} => output.change = "replace"
        /\ output.change # "update"

C14_Witness ==
    /\ output.by = "PlanModifiers"
    /\ Differing(input.state, input.plan) = {"nodes_access"}
    /\ IsNull(input.state.nodes_access)
    /\ input.plan.nodes_access = ListValue(<< >>)
    /\ output.change = "replace"

\* the node types a nodes_access value holds
NodeTypes(v) == IF IsNull(v) THEN {} ELSE {v.elems[i] : i \in 1..Len(v.elems)}

\* C15 as claimed: when state and plan hold the same node types in
\* nodes_access, in whichever order, nodes_access requires no replace.
C15_OrderIrrelevant ==
    (/\ output.by = "PlanModifiers"
     /\ ~IsNull(input.state.nodes_access)
     /\ ~IsNull(input.plan.nodes_access)
     /\ NodeTypes(input.state.nodes_access) = NodeTypes(input.plan.nodes_access)) =>
        <<"nodes_access">> \notin output.replace

\* C16: Delete issues DELETE for the id in state; when that request fails or
\* is answered with a status outside [200,300), 404 for a credential already
\* gone included, Delete reports an error naming the id and the state stays;
\* the state is removed exactly when the DELETE succeeds.
C16_DeleteFailureKeepsState ==
    last.op = "Delete" =>
        /\ Len(last.reqs) = 1
        /\ last.reqs[1].method = "DELETE"
        /\ last.reqs[1].id = last.before.id
        /\ IsErr(last.reqs[1].err) =>
               /\ Len(last.diags) = 1
               /\ last.diags[1].summary = "Error deleting credential"
               /\ last.diags[1].id = last.before.id
               /\ last.diags[1].err = last.reqs[1].err
               /\ state = last.before
        /\ state = NoState <=> ~IsErr(last.reqs[1].err)
        /\ ~IsErr(last.reqs[1].err) => last.diags = << >>

C16_Witness ==
    /\ last.op = "Delete"
    /\ last.reqs[1].err.kind = "api"
    /\ last.reqs[1].err.status = 404
    /\ last.before.id \notin last.remoteBefore
    /\ state = last.before
    /\ state # NoState

\* the request the i-th doRequest call of the operation made
Request(i) == <<last.reqs[i].method, last.reqs[i].id>>

Completed(o) == o.reach /\ ~o.lost /\ o.fail = "none"

\* C18: for a completed request with status s, doRequest returns the raw
\* body and no error exactly when 200 <= s < 300, and otherwise an API error
\* carrying s and the raw body; when the request did not complete (marshal,
\* request construction, network, body read) it returns an error that is not
\* an API error.
C18_StatusClassification ==
    output.by = "doRequest" =>
        /\ Completed(input.o) =>
               /\ ~IsErr(output.res.err) <=> (200 <= input.o.status /\ input.o.status < 300)
               /\ ~IsErr(output.res.err) => output.res.body = input.raw
               /\ IsErr(output.res.err) =>
                      /\ output.res.err = ApiError(input.o.status, input.raw)
                      /\ output.res.body = NoBody
        /\ ~Completed(input.o) =>
               /\ IsErr(output.res.err)
               /\ output.res.err.kind # "api"
               /\ output.res.body = NoBody

C18_Witness ==
    /\ output.by = "doRequest"
    /\ Completed(input.o)
    /\ input.o.status = 300
    /\ output.res.err.kind = "api"
    /\ output.res.err.body = TextBody("denied")

\* what the provider would use for an attribute: the block's value or, when
\* the block leaves it out, the environment variable's
FromEnvironment(value, variable) == IF value = Null THEN variable ELSE value

\* C19 as claimed: when the provider block leaves out host or api_key and the
\* environment variable for it is set, Configure succeeds and the client has
\* the environment's value.
C19_EnvironmentFallback ==
    (/\ output.by = "Configure"
     /\ Null \in {input.config.host, input.config.api_key}
     /\ FromEnvironment(input.config.host, input.env.N8N_HOST)
            \notin {Unset, Unknown, ""}
     /\ FromEnvironment(input.config.api_key, input.env.N8N_API_KEY)
            \notin {Unset, Unknown, ""}) =>
        /\ output.res.diags = << >>
        /\ output.res.client # NilClient
        /\ output.res.client.Host = FromEnvironment(input.config.host, input.env.N8N_HOST)
        /\ output.res.client.APIKey = FromEnvironment(input.config.api_key, input.env.N8N_API_KEY)

\* C20: NewClient returns an error and a nil client exactly when host or
\* apiKey is nil or empty, and otherwise a client with the given Host and
\* APIKey.
C20_NewClientRequiresHostAndKey ==
    output.by = "NewClient" =>
        /\ IsErr(output.res.err) <=>
               (input.host \in {Nil, ""} \/ input.apiKey \in {Nil, ""})
        /\ IsErr(output.res.err) <=> output.res.client = NilClient
        /\ ~IsErr(output.res.err) =>
               /\ output.res.client.Host = input.host
               /\ output.res.client.APIKey = input.apiKey

C20_Witness ==
    /\ output.by = "NewClient"
    /\ input.host = "https://a"
    /\ input.apiKey = ""
    /\ output.res.client = NilClient
    /\ output.res.err = RequiredError("api_key")

\* C21: the client skips certificate verification exactly when insecure is
\* set to true: a client made by Configure when the provider block has
\* insecure = true, a client made by NewClient when the pointer is not nil
\* and points to true.  Absent, null and false all verify.
C21_InsecureOptIn ==
    /\ (output.by = "Configure" /\ output.res.client # NilClient) =>
           /\ output.res.client.InsecureSkipVerify <=> input.config.insecure = "true"
           /\ output.res.client.Insecure = output.res.client.InsecureSkipVerify
    /\ (output.by = "NewClient" /\ output.res.client # NilClient) =>
           /\ output.res.client.InsecureSkipVerify <=> input.insecure = "true"
           /\ output.res.client.Insecure = output.res.client.InsecureSkipVerify

C21_Witness ==
    /\ output.by = "NewClient"
    /\ input.insecure = Nil
    /\ output.res.client # NilClient
    /\ ~output.res.client.InsecureSkipVerify

OAuth2Keys ==
    {"clientId", "clientSecret", "accessTokenUrl", "authUrl", "scope",
     "authQueryParameters", "sendAdditionalBodyProperties", "additionalBodyProperties"}

\* C22: the payload validateCredentialBlocks builds for an oauth2 block has
\* exactly the eight keys; sendAdditionalBodyProperties is false and the two
\* optional strings are "" when their fields are unset, and each carries the
\* field's value when it is set.
C22_OAuth2Defaults ==
    (/\ output.by = "validateCredentialBlocks"
     /\ PresentBlocks(input.plan) = {"oauth2"}) =>
        /\ ~IsErr(output.res.err)
        /\ DOMAIN output.res.data = OAuth2Keys
        /\ input.plan.oauth2.send_additional_body_properties = Null =>
               output.res.data.sendAdditionalBodyProperties = FALSE
        /\ input.plan.oauth2.send_additional_body_properties # Null =>
               output.res.data.sendAdditionalBodyProperties
                   = (input.plan.oauth2.send_additional_body_properties = "true")
        /\ input.plan.oauth2.auth_query_parameters = Null =>
               output.res.data.authQueryParameters = ""
        /\ input.plan.oauth2.auth_query_parameters # Null =>
               output.res.data.authQueryParameters = input.plan.oauth2.auth_query_parameters
        /\ input.plan.oauth2.additional_body_properties = Null =>
               output.res.data.additionalBodyProperties = ""
        /\ input.plan.oauth2.additional_body_properties # Null =>
               output.res.data.additionalBodyProperties
                   = input.plan.oauth2.additional_body_properties

C22_Witness ==
    /\ output.by = "validateCredentialBlocks"
    /\ PresentBlocks(input.plan) = {"oauth2"}
    /\ input.plan.oauth2.send_additional_body_properties = Null
    /\ input.plan.oauth2.auth_query_parameters = Null
    /\ input.plan.oauth2.additional_body_properties = "p"
    /\ output.res.data.sendAdditionalBodyProperties = FALSE

\* C23 as claimed: when the configuration was created and then read with
\* success, the server showing the declared name and the declared
\* nodesAccess or none, planning the same configuration again requires no
\* replace.
C23_Converges ==
    (/\ output.by = "PlanModifiers"
     /\ input.fn = "configuration"
     /\ ~IsErr(output.readErr)
     /\ output.read.name = input.plan.name
     /\ output.read.nodes \in {<< >>, NodesAccessOf(input.plan)}) =>
        /\ output.replace = {}
        /\ output.change = "none"

\* C24 as claimed: every credential the server holds, all of them created by
\* the provider and not deleted, is the one whose id the state records.
C24_NoOrphan ==
    \A id \in remote : state # NoState /\ state.id = id

\* C25: after an Update whose DELETE succeeded and whose create step failed,
\* the state is the state before the Update: it records the old id, and the
\* server holds no credential with that id.
C25_FailedReplaceKeepsOldState ==
    CreateStepFailed =>
        /\ state = last.before
        /\ state.id = last.before.id
        /\ state.id \notin remote
        /\ last.before.id \in last.remoteBefore

C25_Witness ==
    /\ CreateStepFailed
    /\ last.reqs[2].err.kind = "api"
    /\ state.id \in Ids
    /\ state.id \notin remote
    /\ remote = {}

\* C26 as claimed: whatever the server answers to the direct GET or to the
\* list call, the id in state after Read is the id in state before it.
C26_ReadKeepsId ==
    last.op = "Read" => state.id = last.before.id

\* the part of C26 that holds: a Read that fails, or that takes the
\* credential from the list, leaves the id as it was
C26_ReadKeepsIdOnFallback ==
    (last.op = "Read" /\ (IsErr(last.err) \/ Len(last.reqs) = 2)) =>
        state.id = last.before.id

\* C27 as claimed: after a successful Create or Update the name in state is
\* the planned name, whatever name the response carries.
C27_StoresDeclaredName ==
    (CreateSucceeded \/ ReplaceSucceeded) => state.name = last.plan.name

\* C28 as claimed: a plan that ModifyPlan accepts with no error, whatever
\* blocks of it are null, unknown or known, is accepted by
\* validateCredentialBlocks.
C28_ChecksAgree ==
    (/\ output.by = "ModifyPlan, validateCredentialBlocks"
     /\ output.diags = << >>) =>
        ~IsErr(output.res.err)

\* C28 as amended: a plan that ModifyPlan accepts with no error and in which
\* some block is not unknown is accepted by validateCredentialBlocks; a plan
\* whose three blocks are all unknown is accepted by ModifyPlan and rejected
\* by validateCredentialBlocks.
C28_ChecksAgreeUnlessAllUnknown ==
    output.by = "ModifyPlan, validateCredentialBlocks" =>
        /\ (output.diags = << >> /\ \E f \in BlockFields : ~IsUnknown(input.plan[f])) =>
               ~IsErr(output.res.err)
        /\ (\A f \in BlockFields : IsUnknown(input.plan[f])) =>
               /\ output.diags = << >>
               /\ IsErr(output.res.err)

C28_Witness ==
    /\ output.by = "ModifyPlan, validateCredentialBlocks"
    /\ input.plan.basic_auth = UnknownBlock
    /\ input.plan.oauth2 = NullBlock
    /\ input.plan.header_auth = HeaderAuthValid
    /\ output.diags = << >>
    /\ ~IsErr(output.res.err)

\* C29 as claimed: ModifyPlan reports a mandatory field as missing only when
\* the field is null; a field that is set and whose value is unknown is not
\* reported.
C29_UnknownNotMissing ==
    output.by = "ModifyPlan" =>
        \A f \in PresentBlocks(input.plan) :
            \A x \in MandatoryFields(f) :
                <<f, x>> \in NamedBy(output.diags) => input.plan[f][x] = Null

\* C30: operations on different credentials do not interfere through the
\* shared Client: the Client stays as NewClient returned it whatever the
\* operations do and however their steps interleave, and an operation that
\* has returned has issued the requests and returned the credential and the
\* error that it issues and returns when it runs on its own with that Client
\* and gets the same responses.
C30_NoInterference ==
    LET made == NewClient(input.host, input.apiKey, input.insecure).client
    IN  /\ client = made
        /\ \A p \in Process :
               calls[p].pc = "done" =>
                   calls[p] = Alone(made, Called(calls[p].op, calls[p].id), calls[p].got)

\* both operations ran two calls each on the same Client and returned, one
\* with a credential found in the list and the other with an error
C30_Witness ==
    /\ client.kind = "client"
    /\ \A p \in Process : calls[p].pc = "done" /\ Len(calls[p].got) = 2
    /\ calls["one"].op = "GetCredential"
    /\ calls["one"].cred.id = calls["one"].id
    /\ calls["other"].op = "UpdateCredential"
    /\ IsErr(calls["other"].err)
====
